---- MODULE Spec2Model ----
(***************************************************************************)
(* The auction repository of auctionApp (package auction): the "auctions"   *)
(* collection, CreateAuction with its per-auction expiry goroutine,         *)
(* updateAuctionStatus and FindAuctionById.                                 *)
(***************************************************************************)
EXTENDS Bags, FiniteSets, Integers, Sequences, TLC

(* ------------------------------ bounds --------------------------------- *)
\* Number of distinct auction identifiers the callers use (ids are 1..MaxAuctions).
MaxAuctions == 2
\* Resolution of time.Time in the model: ticks per second (1e9 ns in Go).
TicksPerSecond == 2
\* Longest value of AUCTION_INTERVAL drawn, in characters.
MaxLen == 4
\* Requests served by the quotation server, and by the gateway.
MaxRequests == 2

(* --------------------------- program constants ------------------------- *)
Active == 0
Completed == 1
New == 1
Used == 2
Refurbished == 3

Statuses == {Active, Completed}

\* *internal_error.InternalError values, by kind; NoErr is the nil pointer.
NoErr == "nil"
InternalServerError == "internal_server_error"
NotFoundError == "not_found"

(* ------------------------------ inputs --------------------------------- *)
Ids == 1..MaxAuctions
\* Creation instants in ticks: one on a whole second, one inside a second.
Timestamps == {TicksPerSecond, TicksPerSecond + 1}
\* Descriptive fields the request layer supplies, one entry per product.
Catalogue ==
  << [ProductName |-> "iPhone 15 Pro", Category |-> "Electronics",
      Description |-> "Smartphone", Condition |-> New],
     [ProductName |-> "Laptop", Category |-> "Computers",
      Description |-> "Notebook", Condition |-> Used],
     [ProductName |-> "Headphones", Category |-> "electronics",
      Description |-> "Audio", Condition |-> Refurbished] >>

Payload(i) == Catalogue[((i - 1) % Len(Catalogue)) + 1]

\* auction_entity.Auction values handed to CreateAuction: the request layer
\* builds them with status Active and the current time.
Auctions ==
  { [Id |-> i, ProductName |-> Payload(i).ProductName,
     Category |-> Payload(i).Category,
     Description |-> Payload(i).Description,
     Condition |-> Payload(i).Condition,
     Status |-> Active, Timestamp |-> t] :
    i \in Ids, t \in Timestamps }

\* The zero value of a record (no document / nil *Auction).
NoDoc ==
  [Id |-> 0, ProductName |-> "", Category |-> "", Description |-> "",
   Condition |-> 0, Status |-> 0, Timestamp |-> 0]

(* ------------------------------- state --------------------------------- *)
VARIABLES
  store,      \* ar.Collection: _id -> AuctionEntityMongo document, NoDoc if absent
  supplied,   \* the entity each successful CreateAuction was called with
  units,      \* bag of expiry goroutines started by CreateAuction
  shutdown,   \* the process has been asked to shut down
  pc,         \* position of the caller inside CreateAuction
  call,       \* identifier of the CreateAuction call that has not returned yet
  ret,        \* what the last step returned to its caller (NoRet: not a call)
  env,        \* the value of AUCTION_INTERVAL in the process environment
  ar,         \* the AuctionRepository: its auctionInterval and the timers armed
  \* the quotation server (clientServerAPI)
  quotes,     \* rows of table quotes, each with the request that inserted it
  handler,    \* position of quotationHandler in the request it is serving
  execs,      \* goroutines of saveQuoteToDatabase and what db.Exec answered
  served,     \* responses written to the clients of /cotacao
  \* the CEP lookup (multiThread)
  argv,       \* os.Args[1:]
  mainpc,     \* position of main
  ch,         \* the channel of results, capacity 2
  fetch,      \* position of fetchBrasilAPI and fetchViaCEP
  delivered,  \* the sources in the order their results were sent
  reported,   \* what main printed: results and timeout errors, in order
  \* the gateway (OTel)
  calls,      \* requests received by the orchestration service
  resp,       \* the last response of ProcessCEP, with the body it answered
  requests,   \* number of requests ProcessCEP has handled
  \* the quote client (clientServerAPI)
  attempts,   \* what each call of fetchQuoteFromServerOnce returned, in order
  waits,      \* the durations fetchQuoteFromServer has slept, in order
  cpc,        \* position of fetchQuoteFromServer
  quote,      \* what fetchQuoteFromServer returned
  \* fetchExchangeRateWithFallback (quotation server)
  apicalls,   \* the calls made to the rate APIs, in order
  rate,       \* what the last fetchExchangeRateWithFallback was given and returned
  \* WeatherService (OTel orchestrator)
  lookups,    \* the calls made to the location and weather repositories
  wresp       \* what the last GetWeatherByCEP was given and returned

\* The state of each program.
auction == <<store, supplied, units, shutdown, pc, call, ret>>
config == <<env, ar>>
quotation == <<quotes, handler, execs, served>>
lookup == <<argv, mainpc, ch, fetch, delivered, reported>>
gateway == <<calls, resp, requests>>
client == <<attempts, waits, cpc, quote>>
exchange == <<apicalls, rate>>
weather == <<lookups, wresp>>

vars ==
  <<auction, config, quotation, lookup, gateway, client, exchange, weather>>

\* op/id/status/category/productName: the call and its arguments;
\* err/auction/auctions: what it returned; drv: the driver call failed;
\* existed/prior: whether a document with that id was stored when the call
\* was made, and its status.
NoRet ==
  [op |-> "none", id |-> 0, status |-> 0, category |-> "", productName |-> "",
   err |-> NoErr, drv |-> FALSE, existed |-> FALSE, prior |-> 0,
   auction |-> NoDoc, auctions |-> {}]

Returned(op, id, fail) ==
  [NoRet EXCEPT !.op = op, !.id = id, !.drv = fail,
                !.existed = (store[id] # NoDoc), !.prior = store[id].Status]

(* ------------------------ time.Time conversions ------------------------ *)
\* t.Unix(): whole seconds since the epoch.
Unix(t) == t \div TicksPerSecond
\* time.Unix(sec, 0).
TimeUnix(sec) == sec * TicksPerSecond

(* --------------------------- entity <-> bson --------------------------- *)
ToMongo(a) ==
  [Id |-> a.Id, ProductName |-> a.ProductName, Category |-> a.Category,
   Description |-> a.Description, Condition |-> a.Condition,
   Status |-> a.Status, Timestamp |-> Unix(a.Timestamp)]

\* Variant: the stored seconds are read back as ticks.
FromMongoRawTimestamp(d) ==
  [Id |-> d.Id, ProductName |-> d.ProductName, Category |-> d.Category,
   Description |-> d.Description, Condition |-> d.Condition,
   Status |-> d.Status, Timestamp |-> d.Timestamp]

FromMongo(d) ==
  [Id |-> d.Id, ProductName |-> d.ProductName, Category |-> d.Category,
   Description |-> d.Description, Condition |-> d.Condition,
   Status |-> d.Status, Timestamp |-> TimeUnix(d.Timestamp)]

(* ------------------------- the mongo collection ------------------------ *)
\* Variant: an insert that replaces an existing document instead of failing.
InsertOneReplacing(coll, doc, fail) ==
  IF fail
    THEN [coll |-> coll, err |-> TRUE]
    ELSE [coll |-> [coll EXCEPT ![doc.Id] = doc], err |-> FALSE]

\* Collection.InsertOne: fails on a driver error or on a duplicate _id.
InsertOne(coll, doc, fail) ==
  IF fail \/ coll[doc.Id] # NoDoc
    THEN [coll |-> coll, err |-> TRUE]
    ELSE [coll |-> [coll EXCEPT ![doc.Id] = doc], err |-> FALSE]

\* Variant: the update replaces the document instead of setting one field.
UpdateOneReplaceDocument(coll, id, status, fail) ==
  IF fail
    THEN [coll |-> coll, err |-> TRUE, MatchedCount |-> 0, ModifiedCount |-> 0]
  ELSE IF coll[id] = NoDoc
    THEN [coll |-> coll, err |-> FALSE, MatchedCount |-> 0, ModifiedCount |-> 0]
  ELSE [coll |-> [coll EXCEPT ![id] = [NoDoc EXCEPT !.Id = id,
                                                   !.Status = status]],
        err |-> FALSE, MatchedCount |-> 1, ModifiedCount |-> 1]

\* Variant: the filter also requires the stored status to be Active.
UpdateOneFromActive(coll, id, status, fail) ==
  IF fail
    THEN [coll |-> coll, err |-> TRUE, MatchedCount |-> 0, ModifiedCount |-> 0]
  ELSE IF coll[id] = NoDoc \/ coll[id].Status # Active
    THEN [coll |-> coll, err |-> FALSE, MatchedCount |-> 0, ModifiedCount |-> 0]
  ELSE [coll |-> [coll EXCEPT ![id].Status = status], err |-> FALSE,
        MatchedCount |-> 1,
        ModifiedCount |-> IF coll[id].Status = status THEN 0 ELSE 1]

\* Variant: UpdateOne with the upsert option, inserting when nothing matches.
UpdateOneUpsert(coll, id, status, fail) ==
  IF fail
    THEN [coll |-> coll, err |-> TRUE, MatchedCount |-> 0, ModifiedCount |-> 0]
  ELSE IF coll[id] = NoDoc
    THEN [coll |-> [coll EXCEPT ![id] = [NoDoc EXCEPT !.Id = id,
                                                     !.Status = status]],
          err |-> FALSE, MatchedCount |-> 0, ModifiedCount |-> 0]
  ELSE [coll |-> [coll EXCEPT ![id].Status = status], err |-> FALSE,
        MatchedCount |-> 1,
        ModifiedCount |-> IF coll[id].Status = status THEN 0 ELSE 1]

\* Collection.UpdateOne(filter {_id: id}, {$set: {status: status}}), no upsert.
UpdateOne(coll, id, status, fail) ==
  IF fail
    THEN [coll |-> coll, err |-> TRUE, MatchedCount |-> 0, ModifiedCount |-> 0]
  ELSE IF coll[id] = NoDoc
    THEN [coll |-> coll, err |-> FALSE, MatchedCount |-> 0, ModifiedCount |-> 0]
  ELSE [coll |-> [coll EXCEPT ![id].Status = status], err |-> FALSE,
        MatchedCount |-> 1,
        ModifiedCount |-> IF coll[id].Status = status THEN 0 ELSE 1]

\* Collection.FindOne(filter {_id: id}).Decode: ErrNoDocuments when absent.
FindOne(coll, id, fail) ==
  IF fail \/ coll[id] = NoDoc
    THEN [doc |-> NoDoc, err |-> TRUE]
    ELSE [doc |-> coll[id], err |-> FALSE]

(* ----------------------------- FindAuctions ---------------------------- *)
\* The status value FindAuctions takes as "no status filter".
AnyStatus == -1

\* Filter values the request layer passes: the sentinel, the two statuses
\* and one value outside the enumeration; categories and product names.
StatusFilters == {AnyStatus} \cup Statuses \cup {Completed + 1}
CategoryFilters == {"", "Electronics", "electronics"}
NameFilters == {"", "phone", "Laptop"}

\* The characters of the strings that are matched by pattern.
Chars(s) ==
  CASE s = "" -> << >>
    [] s = "phone" -> <<"p", "h", "o", "n", "e">>
    [] s = "Laptop" -> <<"L", "a", "p", "t", "o", "p">>
    [] s = "iPhone 15 Pro" ->
         <<"i", "P", "h", "o", "n", "e", " ", "1", "5", " ", "P", "r", "o">>
    [] s = "Headphones" ->
         <<"H", "e", "a", "d", "p", "h", "o", "n", "e", "s">>
    [] s = "Electronics" ->
         <<"E", "l", "e", "c", "t", "r", "o", "n", "i", "c", "s">>
    [] s = "electronics" ->
         <<"e", "l", "e", "c", "t", "r", "o", "n", "i", "c", "s">>
    [] s = "Computers" ->
         <<"C", "o", "m", "p", "u", "t", "e", "r", "s">>

UpperCase ==
  <<"A", "B", "C", "D", "E", "F", "G", "H", "I", "J", "K", "L", "M",
    "N", "O", "P", "Q", "R", "S", "T", "U", "V", "W", "X", "Y", "Z">>
LowerCase ==
  <<"a", "b", "c", "d", "e", "f", "g", "h", "i", "j", "k", "l", "m",
    "n", "o", "p", "q", "r", "s", "t", "u", "v", "w", "x", "y", "z">>

ToLower(c) ==
  IF \E k \in DOMAIN UpperCase : UpperCase[k] = c
    THEN LowerCase[CHOOSE k \in DOMAIN UpperCase : UpperCase[k] = c]
    ELSE c

\* primitive.Regex{Pattern: pattern, Options: "i"} on a string value: an
\* unanchored, case-insensitive match of a pattern of literal characters.
RegexMatchI(pattern, text) ==
  LET p == Chars(pattern)
      t == Chars(text)
  IN \E off \in 0..(Len(t) - Len(p)) :
       \A k \in 1..Len(p) : ToLower(t[off + k]) = ToLower(p[k])

\* The bson keys of an AuctionEntityMongo document and the value under each.
BsonKeys ==
  {"_id", "product_name", "category", "description", "condition", "status",
   "timestamp"}

Field(d, key) ==
  CASE key = "_id" -> d.Id
    [] key = "product_name" -> d.ProductName
    [] key = "category" -> d.Category
    [] key = "description" -> d.Description
    [] key = "condition" -> d.Condition
    [] key = "status" -> d.Status
    [] key = "timestamp" -> d.Timestamp

\* Variant: the status filter is set whatever the status argument is.
BuildFilterAlwaysStatus(status, category, productName) ==
  {[key |-> "status", op |-> "eq", val |-> status]}
  \cup (IF category # ""
          THEN {[key |-> "category", op |-> "eq", val |-> category]}
          ELSE {})
  \cup (IF productName # ""
          THEN {[key |-> "productName", op |-> "regex", val |-> productName]}
          ELSE {})

\* Variant: every status outside the enumeration means "no status filter".
BuildFilterEnumOnly(status, category, productName) ==
  (IF status \in Statuses
     THEN {[key |-> "status", op |-> "eq", val |-> status]}
     ELSE {})
  \cup (IF category # ""
          THEN {[key |-> "category", op |-> "eq", val |-> category]}
          ELSE {})
  \cup (IF productName # ""
          THEN {[key |-> "productName", op |-> "regex", val |-> productName]}
          ELSE {})

\* Variant: the category is matched by case-insensitive pattern as well.
BuildFilterCategoryRegex(status, category, productName) ==
  (IF status # AnyStatus
     THEN {[key |-> "status", op |-> "eq", val |-> status]}
     ELSE {})
  \cup (IF category # ""
          THEN {[key |-> "category", op |-> "regex", val |-> category]}
          ELSE {})
  \cup (IF productName # ""
          THEN {[key |-> "productName", op |-> "regex", val |-> productName]}
          ELSE {})

\* The bson.M filter FindAuctions builds: one condition per key it sets.
BuildFilter(status, category, productName) ==
  (IF status # AnyStatus
     THEN {[key |-> "status", op |-> "eq", val |-> status]}
     ELSE {})
  \cup (IF category # ""
          THEN {[key |-> "category", op |-> "eq", val |-> category]}
          ELSE {})
  \cup (IF productName # ""
          THEN {[key |-> "productName", op |-> "regex", val |-> productName]}
          ELSE {})

\* A document satisfies a condition when it carries the key and the value
\* under it is equal to, or matched by, the condition's value.
Matches(d, cond) ==
  /\ cond.key \in BsonKeys
  /\ IF cond.op = "eq"
       THEN Field(d, cond.key) = cond.val
       ELSE RegexMatchI(cond.val, Field(d, cond.key))

\* Collection.Find(filter) followed by cursor.All: the documents that
\* satisfy every condition, or an error.
Find(coll, filter, fail) ==
  IF fail
    THEN [docs |-> {}, err |-> TRUE]
    ELSE [docs |-> {coll[i] : i \in {j \in DOMAIN coll :
                      coll[j] # NoDoc /\ \A c \in filter : Matches(coll[j], c)}},
          err |-> FALSE]

(* -------------------------- updateAuctionStatus ------------------------ *)
\* Variant: the $set names a field the documents do not carry, so a matched
\* document keeps its status.
updateAuctionStatusOtherField(coll, auctionId, status, fail) ==
  LET result == UpdateOne(coll, auctionId, status, fail) IN
    IF result.err
      THEN [coll |-> coll, err |-> InternalServerError]
    ELSE IF result.MatchedCount = 0
      THEN [coll |-> coll, err |-> NotFoundError]
    ELSE [coll |-> coll, err |-> NoErr]

\* Variant: "not found" decided on ModifiedCount instead of MatchedCount.
updateAuctionStatusModified(coll, auctionId, status, fail) ==
  LET result == UpdateOne(coll, auctionId, status, fail) IN
    IF result.err
      THEN [coll |-> result.coll, err |-> InternalServerError]
    ELSE IF result.ModifiedCount = 0
      THEN [coll |-> result.coll, err |-> NotFoundError]
    ELSE [coll |-> result.coll, err |-> NoErr]

updateAuctionStatus(coll, auctionId, status, fail) ==
  LET result == UpdateOne(coll, auctionId, status, fail) IN
    IF result.err
      THEN [coll |-> result.coll, err |-> InternalServerError]
    ELSE IF result.MatchedCount = 0
      THEN [coll |-> result.coll, err |-> NotFoundError]
    ELSE [coll |-> result.coll, err |-> NoErr]

(* --------------------------- getAuctionInterval ------------------------ *)
\* Durations are counted in milliseconds.
Millisecond == 1
Second == 1000 * Millisecond
Minute == 60 * Second

\* The characters AUCTION_INTERVAL is written with: digits, unit letters,
\* a letter of no unit and the sign.  A variable that is not set reads as
\* the empty string.
Alphabet == {"0", "1", "m", "s", "x", "-"}
EnvStrings == UNION {[1..n -> Alphabet] : n \in 0..MaxLen}
\* Values the variable is given after the repository has been constructed.
LaterEnv == {<< >>, <<"1", "s">>, <<"x">>}

IsDigit(c) == c \in {"0", "1", "2", "3", "4", "5", "6", "7", "8", "9"}
DigitValue(c) ==
  CASE c = "0" -> 0 [] c = "1" -> 1 [] c = "2" -> 2 [] c = "3" -> 3
    [] c = "4" -> 4 [] c = "5" -> 5 [] c = "6" -> 6 [] c = "7" -> 7
    [] c = "8" -> 8 [] c = "9" -> 9

Drop(s, n) == SubSeq(s, n + 1, Len(s))

\* The number of leading characters of s that are digits.
DigitRun(s) ==
  CHOOSE k \in 0..Len(s) :
    /\ \A i \in 1..k : IsDigit(s[i])
    /\ k < Len(s) => ~IsDigit(s[k + 1])

\* The number of leading characters of s before the next digit or ".".
UnitRun(s) ==
  CHOOSE k \in 0..Len(s) :
    /\ \A i \in 1..k : ~IsDigit(s[i]) /\ s[i] # "."
    /\ k < Len(s) => (IsDigit(s[k + 1]) \/ s[k + 1] = ".")

RECURSIVE leadingInt(_)
leadingInt(digits) ==
  IF digits = << >> THEN 0
  ELSE 10 * leadingInt(SubSeq(digits, 1, Len(digits) - 1))
         + DigitValue(digits[Len(digits)])

\* unitMap, for the units the alphabet can spell.
KnownUnits == {<<"m", "s">>, <<"s">>, <<"m">>}
unitMap(u) ==
  CASE u = <<"m", "s">> -> Millisecond
    [] u = <<"s">> -> Second
    [] u = <<"m">> -> Minute

\* The loop of time.ParseDuration over the groups "<digits><unit>": d is
\* the sum so far.
RECURSIVE ParseGroups(_, _)
ParseGroups(s, d) ==
  IF s = << >> THEN [ok |-> TRUE, d |-> d]
  ELSE
    LET n == DigitRun(s)
        rest == Drop(s, n)
        m == UnitRun(rest)
        u == SubSeq(rest, 1, m)
    IN IF n = 0 \/ m = 0 \/ u \notin KnownUnits
         THEN [ok |-> FALSE, d |-> 0]
         ELSE ParseGroups(Drop(rest, m),
                          d + leadingInt(SubSeq(s, 1, n)) * unitMap(u))

\* time.ParseDuration: an optional sign, then "0" or one or more groups.
ParseDuration(str) ==
  LET signed == str # << >> /\ str[1] \in {"-", "+"}
      neg == signed /\ str[1] = "-"
      s == IF signed THEN Drop(str, 1) ELSE str
  IN IF s = <<"0">> THEN [ok |-> TRUE, d |-> 0]
     ELSE IF s = << >> THEN [ok |-> FALSE, d |-> 0]
     ELSE LET r == ParseGroups(s, 0)
          IN IF r.ok /\ neg THEN [ok |-> TRUE, d |-> 0 - r.d] ELSE r

\* Variant: the value is returned whether the parse failed or not.
getAuctionIntervalUnchecked(value) == ParseDuration(value).d

getAuctionInterval(value) ==
  LET r == ParseDuration(value)
  IN IF ~r.ok THEN Minute * 5 ELSE r.d

\* The repository before NewAuctionRepository, and the one it returns:
\* read is the value of AUCTION_INTERVAL it was constructed from, armed
\* the durations of the timers its CreateAuction calls have started.
NoRepository ==
  [built |-> FALSE, auctionInterval |-> 0, read |-> << >>, creates |-> 0,
   armed |-> {}]

Constructed(value) ==
  [built |-> TRUE, auctionInterval |-> getAuctionInterval(value),
   read |-> value, creates |-> 0, armed |-> {}]

(* ---------------------- the context of the repository ------------------ *)
\* Variant: the context is one that has been cancelled.
CtxDoneCancelled == TRUE

\* ar.ctx is context.Background(): it has no cancel function and its Done()
\* channel is nil, so a receive from it is never ready, shutdown or not.
CtxDone == FALSE

(* ----------------------------- expiry units ---------------------------- *)
\* Variant: the goroutine starts past its timer.
NewUnitFired(id) ==
  [id |-> id, pc |-> "Closing", calls |-> 0, target |-> 0, res |-> NoErr]

\* The goroutine of CreateAuction, capturing auctionEntityMongo.Id.
NewUnit(id) ==
  [id |-> id, pc |-> "Armed", calls |-> 0, target |-> 0, res |-> NoErr]

Replace(u, v) == (units (-) SetToBag({u})) (+) SetToBag({v})

(* ------------------------------- actions ------------------------------- *)
\* Each program before its first step.
InitAuction ==
  /\ store = [i \in Ids |-> NoDoc]
  /\ supplied = [i \in Ids |-> NoDoc]
  /\ units = EmptyBag
  /\ shutdown = FALSE
  /\ pc = "idle"
  /\ call = 0
  /\ ret = NoRet

InitConfig ==
  /\ env = << >>
  /\ ar = Constructed(env)

InitQuotation ==
  /\ quotes = {}
  /\ handler = [pc |-> "idle", n |-> 0, bid |-> ""]
  /\ execs = {}
  /\ served = {}

InitLookup ==
  /\ argv = << >>
  /\ mainpc = "start"
  /\ ch = << >>
  /\ fetch = [api \in {"BrasilAPI", "ViaCEP"} |-> "idle"]
  /\ delivered = << >>
  /\ reported = << >>

InitGateway ==
  /\ calls = << >>
  /\ resp = [n |-> 0, body |-> [kind |-> "none", cep |-> << >>], status |-> 0,
             message |-> "", relayed |-> "",
             upstream |-> [err |-> FALSE, StatusCode |-> 0, Body |-> ""]]
  /\ requests = 0

InitClient ==
  /\ attempts = << >>
  /\ waits = << >>
  /\ cpc = "try"
  /\ quote = [done |-> FALSE, err |-> FALSE, Bid |-> << >>]

InitExchange ==
  /\ apicalls = << >>
  /\ rate = [n |-> 0, primary |-> [err |-> FALSE, BRL |-> << >>],
             fallback |-> [err |-> FALSE, bid |-> << >>], err |-> FALSE,
             BRL |-> << >>]

InitWeather ==
  /\ lookups = << >>
  /\ wresp = [n |-> 0, cep |-> "", location |-> "", data |-> "", err |-> "",
              status |-> 0, message |-> "",
              City |-> "", TempC |-> 0, TempF |-> 0, TempK |-> 0]

Init ==
  /\ InitAuction
  /\ InitConfig
  /\ InitQuotation
  /\ InitLookup
  /\ InitGateway
  /\ InitClient
  /\ InitExchange
  /\ InitWeather

\* Variant: the error branch logs but does not return, so the goroutine is
\* started and nil returned whatever InsertOne answered.
CreateAuctionNoEarlyReturn(a, fail) ==
  /\ pc = "idle"
  /\ LET r == InsertOne(store, ToMongo(a), fail) IN
       /\ store' = r.coll
       /\ supplied' = IF r.err THEN supplied ELSE [supplied EXCEPT ![a.Id] = a]
       /\ units' = units (+) SetToBag({NewUnit(ToMongo(a).Id)})
       /\ pc' = "creating"
       /\ call' = a.Id
       /\ ret' = NoRet
  /\ UNCHANGED shutdown
  /\ UNCHANGED <<config, quotation, lookup, gateway, client, exchange, weather>>

\* CreateAuction up to the go statement (or up to the error return).
CreateAuction(a, fail) ==
  /\ pc = "idle"
  /\ LET r == InsertOne(store, ToMongo(a), fail) IN
       IF r.err
         THEN /\ ret' = [Returned("create", a.Id, fail) EXCEPT
                           !.err = InternalServerError]
              /\ UNCHANGED <<store, supplied, units, pc, call>>
         ELSE /\ store' = r.coll
              /\ supplied' = [supplied EXCEPT ![a.Id] = a]
              /\ units' = units (+) SetToBag({NewUnit(ToMongo(a).Id)})
              /\ pc' = "creating"
              /\ call' = a.Id
              /\ ret' = NoRet
  /\ UNCHANGED shutdown
  /\ UNCHANGED <<config, quotation, lookup, gateway, client, exchange, weather>>

\* Variant: CreateAuction returns what its goroutine's close attempt
\* returned, when that attempt has already been made.
CreateReturnCloseResult ==
  /\ pc = "creating"
  /\ pc' = "idle"
  /\ call' = 0
  /\ \E u \in BagToSet(units) :
       /\ u.id = call
       /\ ret' = [NoRet EXCEPT !.op = "create", !.id = call,
                               !.err = u.res]
  /\ UNCHANGED <<store, supplied, units, shutdown>>
  /\ UNCHANGED <<config, quotation, lookup, gateway, client, exchange, weather>>

\* The final "return nil" of CreateAuction.
CreateReturn ==
  /\ pc = "creating"
  /\ pc' = "idle"
  /\ call' = 0
  /\ ret' = [NoRet EXCEPT !.op = "create", !.id = call]
  /\ UNCHANGED <<store, supplied, units, shutdown>>
  /\ UNCHANGED <<config, quotation, lookup, gateway, client, exchange, weather>>

\* Variant: the select has no timer branch.
ExpiryWaitCtxOnly(u) ==
  /\ u.pc = "Armed"
  /\ CtxDone
  /\ units' = Replace(u, [u EXCEPT !.pc = "Aborted"])
  /\ ret' = NoRet
  /\ UNCHANGED <<store, supplied, shutdown, pc, call>>
  /\ UNCHANGED <<config, quotation, lookup, gateway, client, exchange, weather>>

\* The select of the goroutine: the timer fires, or ar.ctx.Done() is ready.
ExpiryWait(u) ==
  /\ u.pc = "Armed"
  /\ \/ units' = Replace(u, [u EXCEPT !.pc = "Closing"])
     \/ /\ CtxDone
        /\ units' = Replace(u, [u EXCEPT !.pc = "Aborted"])
  /\ ret' = NoRet
  /\ UNCHANGED <<store, supplied, shutdown, pc, call>>
  /\ UNCHANGED <<config, quotation, lookup, gateway, client, exchange, weather>>

\* Variant: a failed status update is tried again.
ExpiryCloseRetrying(u, fail) ==
  /\ u.pc = "Closing"
  /\ LET r == updateAuctionStatus(store, u.id, Completed, fail) IN
       /\ store' = r.coll
       /\ units' = Replace(u, [u EXCEPT
                                 !.pc = IF r.err = NoErr THEN "Closed" ELSE "Closing",
                                 !.calls = @ + 1,
                                 !.target = u.id, !.res = r.err])
  /\ ret' = NoRet
  /\ UNCHANGED <<supplied, shutdown, pc, call>>
  /\ UNCHANGED <<config, quotation, lookup, gateway, client, exchange, weather>>

\* The timer branch: one call of updateAuctionStatus, its result dropped.
ExpiryClose(u, fail) ==
  /\ u.pc = "Closing"
  /\ LET r == updateAuctionStatus(store, u.id, Completed, fail) IN
       /\ store' = r.coll
       /\ units' = Replace(u, [u EXCEPT !.pc = "Closed", !.calls = @ + 1,
                                        !.target = u.id, !.res = r.err])
  /\ ret' = NoRet
  /\ UNCHANGED <<supplied, shutdown, pc, call>>
  /\ UNCHANGED <<config, quotation, lookup, gateway, client, exchange, weather>>

\* Variant: mongo.ErrNoDocuments is reported as not-found.
FindAuctionByIdNotFound(id, fail) ==
  /\ pc = "idle"
  /\ LET r == FindOne(store, id, fail) IN
       ret' = IF r.err
                THEN [Returned("find", id, fail) EXCEPT
                        !.err = IF ~fail /\ store[id] = NoDoc
                                  THEN NotFoundError
                                  ELSE InternalServerError]
                ELSE [Returned("find", id, fail) EXCEPT
                        !.auction = FromMongo(r.doc)]
  /\ UNCHANGED <<store, supplied, units, shutdown, pc, call>>
  /\ UNCHANGED <<config, quotation, lookup, gateway, client, exchange, weather>>

\* FindOne and Decode, any error answered with the internal error; then
\* the conversion of the document.
FindAuctionById(id, fail) ==
  /\ pc = "idle"
  /\ LET r == FindOne(store, id, fail) IN
       ret' = IF r.err
                THEN [Returned("find", id, fail) EXCEPT
                        !.err = InternalServerError]
                ELSE [Returned("find", id, fail) EXCEPT
                        !.auction = FromMongo(r.doc)]
  /\ UNCHANGED <<store, supplied, units, shutdown, pc, call>>
  /\ UNCHANGED <<config, quotation, lookup, gateway, client, exchange, weather>>

FindAuctions(status, category, productName, fail) ==
  /\ pc = "idle"
  /\ LET r == Find(store, BuildFilter(status, category, productName), fail) IN
       ret' = [NoRet EXCEPT
                 !.op = "findMany", !.status = status, !.category = category,
                 !.productName = productName, !.drv = fail,
                 !.err = IF r.err THEN InternalServerError ELSE NoErr,
                 !.auctions = {FromMongo(d) : d \in r.docs}]
  /\ UNCHANGED <<store, supplied, units, shutdown, pc, call>>
  /\ UNCHANGED <<config, quotation, lookup, gateway, client, exchange, weather>>

\* The one-shot, process-wide shutdown signal is delivered. The repository
\* keeps no cancel function, so ar.ctx is left as it was (see CtxDone).
Shutdown ==
  /\ ~shutdown
  /\ shutdown' = TRUE
  /\ ret' = NoRet
  /\ UNCHANGED <<store, supplied, units, pc, call>>
  /\ UNCHANGED <<config, quotation, lookup, gateway, client, exchange, weather>>

\* A direct call of updateAuctionStatus, as the package's tests make.
UpdateStatus(id, status, fail) ==
  /\ pc = "idle"
  /\ LET r == updateAuctionStatus(store, id, status, fail) IN
       /\ store' = r.coll
       /\ ret' = [Returned("update", id, fail) EXCEPT
                       !.status = status, !.err = r.err]
  /\ UNCHANGED <<supplied, units, shutdown, pc, call>>
  /\ UNCHANGED <<config, quotation, lookup, gateway, client, exchange, weather>>

Next ==
  \/ \E a \in Auctions, fail \in BOOLEAN : CreateAuction(a, fail)
  \/ CreateReturn
  \/ \E u \in BagToSet(units) : ExpiryWait(u)
  \/ \E u \in BagToSet(units), fail \in BOOLEAN : ExpiryClose(u, fail)
  \/ \E id \in Ids, fail \in BOOLEAN : FindAuctionById(id, fail)
  \/ Shutdown

\* The repository as the application drives it.
Spec == Init /\ [][Next]_vars

\* The goroutines are scheduled: a timer that can fire does, and a goroutine
\* past its timer makes its call.
Fairness ==
  \A i \in Ids :
    /\ WF_vars(\E u \in BagToSet(units) : u.id = i /\ ExpiryWait(u))
    /\ WF_vars(\E u \in BagToSet(units), fail \in BOOLEAN :
                 u.id = i /\ ExpiryClose(u, fail))

FairSpec == Spec /\ Fairness

NextUpdate ==
  \/ Next
  \/ \E id \in Ids, status \in Statuses, fail \in BOOLEAN :
       UpdateStatus(id, status, fail)

\* The repository with updateAuctionStatus also called directly.
SpecUpdate == Init /\ [][NextUpdate]_vars

\* Create, UpdateStatus, FindById, FindMany and the timers; FindMany with and
\* without a status and a category filter.
NextFrame ==
  \/ \E a \in Auctions, fail \in BOOLEAN : CreateAuction(a, fail)
  \/ CreateReturn
  \/ \E u \in BagToSet(units) : ExpiryWait(u)
  \/ \E u \in BagToSet(units), fail \in BOOLEAN : ExpiryClose(u, fail)
  \/ \E id \in Ids, status \in Statuses, fail \in BOOLEAN :
       UpdateStatus(id, status, fail)
  \/ \E id \in Ids, fail \in BOOLEAN : FindAuctionById(id, fail)
  \/ \E status \in {AnyStatus, Active}, category \in {"", "Electronics"},
        fail \in BOOLEAN :
       FindAuctions(status, category, "", fail)

\* The repository under every operation it offers.
SpecFrame == Init /\ [][NextFrame]_vars

NextFind ==
  \/ \E a \in Auctions, fail \in BOOLEAN : CreateAuction(a, fail)
  \/ CreateReturn
  \/ \E u \in BagToSet(units) : ExpiryWait(u)
  \/ \E u \in BagToSet(units), fail \in BOOLEAN : ExpiryClose(u, fail)
  \/ \E status \in StatusFilters, category \in CategoryFilters,
        productName \in NameFilters, fail \in BOOLEAN :
       FindAuctions(status, category, productName, fail)

\* The repository with auctions created, closed and listed.
SpecFind == Init /\ [][NextFind]_vars

\* The process starts with any value of AUCTION_INTERVAL and no repository.
InitInterval ==
  /\ InitAuction
  /\ env \in EnvStrings
  /\ ar = NoRepository
  /\ InitQuotation
  /\ InitLookup
  /\ InitGateway
  /\ InitClient
  /\ InitExchange
  /\ InitWeather

NewAuctionRepository ==
  /\ ~ar.built
  /\ ar' = Constructed(env)
  /\ UNCHANGED <<auction, env, quotation, lookup, gateway,
                 client, exchange, weather>>

\* os.Setenv("AUCTION_INTERVAL", value) once the repository exists.
Setenv(value) ==
  /\ ar.built
  /\ env # value
  /\ env' = value
  /\ UNCHANGED <<auction, ar, quotation, lookup, gateway,
                 client, exchange, weather>>

\* Variant: the goroutine reads the interval again when it arms its timer.
ArmTimerRereading ==
  /\ ar.built
  /\ ar.creates < MaxAuctions
  /\ ar' = [ar EXCEPT !.creates = @ + 1,
                      !.armed = @ \cup {getAuctionInterval(env)}]
  /\ UNCHANGED <<auction, env, quotation, lookup, gateway,
                 client, exchange, weather>>

\* The goroutine of a CreateAuction arms time.After(ar.auctionInterval).
ArmTimer ==
  /\ ar.built
  /\ ar.creates < MaxAuctions
  /\ ar' = [ar EXCEPT !.creates = @ + 1,
                      !.armed = @ \cup {ar.auctionInterval}]
  /\ UNCHANGED <<auction, env, quotation, lookup, gateway,
                 client, exchange, weather>>

NextInterval ==
  \/ NewAuctionRepository
  \/ \E value \in LaterEnv : Setenv(value)
  \/ ArmTimer

\* The expiry interval from the environment to the timers.
SpecInterval == InitInterval /\ [][NextInterval]_vars

(* --------------------------- quotation server -------------------------- *)
\* The bid of the exchange rate as the handler holds it.
Bids == {"5.4321", "5.5000"}

\* quotationHandler from fetching the rate to the call of
\* saveQuoteToDatabase, which starts the goroutine of db.Exec; a failed
\* fetch is answered 500.
FetchRate(bid, fail) ==
  /\ handler.pc = "idle"
  /\ handler.n < MaxRequests
  /\ IF fail
       THEN /\ served' = served \cup
                 {[n |-> handler.n + 1, status |-> 500, bid |-> "",
                   save |-> "none"]}
            /\ handler' = [handler EXCEPT !.n = @ + 1]
            /\ UNCHANGED execs
       ELSE /\ handler' = [pc |-> "saving", n |-> handler.n + 1, bid |-> bid]
            /\ execs' = execs \cup
                 {[n |-> handler.n + 1, bid |-> bid, st |-> "running",
                   err |-> "", done |-> << >>]}
            /\ UNCHANGED served
  /\ UNCHANGED <<quotes, auction, config, lookup, gateway,
                 client, exchange, weather>>

\* The goroutine up to its send: db.Exec(query, bid).  The statement
\* carries no context, so it runs whether the handler still waits or not.
Exec(g, fail) ==
  /\ g \in execs
  /\ g.st = "running"
  /\ IF fail
       THEN /\ execs' = (execs \ {g}) \cup
                 {[g EXCEPT !.st = "sending", !.err = "err"]}
            /\ UNCHANGED quotes
       ELSE /\ execs' = (execs \ {g}) \cup
                 {[g EXCEPT !.st = "sending", !.err = "nil"]}
            /\ quotes' = quotes \cup {[n |-> g.n, bid |-> g.bid]}
  /\ UNCHANGED <<handler, served, auction, config, lookup, gateway,
                 client, exchange, weather>>

\* done := make(chan error, 1).
DoneCap == 1

\* Variant: done := make(chan error); the send waits for the receiver, the
\* select of the call that made the channel, and hands the value to it.
SendUnbuffered(g) ==
  /\ g \in execs
  /\ g.st = "sending"
  /\ handler.pc = "saving"
  /\ handler.n = g.n
  /\ execs' = (execs \ {g}) \cup {[g EXCEPT !.st = "exited"]}
  /\ served' = served \cup
       {[n |-> handler.n, status |-> 200, bid |-> handler.bid,
         save |-> g.err]}
  /\ handler' = [handler EXCEPT !.pc = "idle", !.bid = ""]
  /\ UNCHANGED <<quotes, auction, config, lookup, gateway,
                 client, exchange, weather>>

\* The goroutine's done <- err, which proceeds when the channel has room,
\* and the end of the goroutine.
Send(g) ==
  /\ g \in execs
  /\ g.st = "sending"
  /\ Len(g.done) < DoneCap
  /\ execs' = (execs \ {g}) \cup
       {[g EXCEPT !.st = "exited", !.done = Append(@, g.err)]}
  /\ UNCHANGED <<quotes, handler, served, auction, config, lookup, gateway,
                 client, exchange, weather>>

\* select takes <-done: saveQuoteToDatabase returns what db.Exec answered
\* and the handler writes the quote.
SaveDone ==
  /\ handler.pc = "saving"
  /\ \E g \in execs :
       /\ g.n = handler.n
       /\ g.done # << >>
       /\ execs' = (execs \ {g}) \cup {[g EXCEPT !.done = Tail(@)]}
       /\ served' = served \cup
            {[n |-> handler.n, status |-> 200, bid |-> handler.bid,
              save |-> Head(g.done)]}
  /\ handler' = [handler EXCEPT !.pc = "idle", !.bid = ""]
  /\ UNCHANGED <<quotes, auction, config, lookup, gateway,
                 client, exchange, weather>>

\* select takes <-ctx.Done() after 10 ms: saveQuoteToDatabase returns
\* ctx.Err() and the handler writes the quote all the same.
SaveTimeout ==
  /\ handler.pc = "saving"
  /\ served' = served \cup
       {[n |-> handler.n, status |-> 200, bid |-> handler.bid,
         save |-> "timeout"]}
  /\ handler' = [handler EXCEPT !.pc = "idle", !.bid = ""]
  /\ UNCHANGED <<quotes, execs, auction, config, lookup, gateway,
                 client, exchange, weather>>

NextQuotation ==
  \/ \E bid \in Bids, fail \in BOOLEAN : FetchRate(bid, fail)
  \/ \E g \in execs, fail \in BOOLEAN : Exec(g, fail)
  \/ \E g \in execs : Send(g)
  \/ SaveDone
  \/ SaveTimeout

\* The quotation server answering /cotacao.
SpecQuotation == Init /\ [][NextQuotation]_vars

\* The goroutines are scheduled, db.Exec returns, and the deadline of a
\* waiting saveQuoteToDatabase passes.
FairnessQuotation ==
  /\ \A n \in 1..MaxRequests :
       /\ WF_vars(\E g \in execs, fail \in BOOLEAN : g.n = n /\ Exec(g, fail))
       /\ WF_vars(\E g \in execs : g.n = n /\ Send(g))
  /\ WF_vars(SaveDone \/ SaveTimeout)

FairQuotation == SpecQuotation /\ FairnessQuotation

(* ------------------------------ CEP lookup ----------------------------- *)
APIs == {"BrasilAPI", "ViaCEP"}

\* Command lines: no argument, or one CEP of 7, 8 or 9 characters.
CepArgs ==
  {<<"0", "1", "1", "5", "3", "0", "0", "0">>,
   <<"2", "9", "9", "0", "2", "5", "5", "5">>,
   <<"0", "1", "3", "1", "0", "1", "0", "0">>,
   <<"7", "0", "1", "5", "0", "9", "0", "0">>,
   <<"0", "1", "1", "5", "3", "0", "0">>,
   <<"0", "1", "1", "5", "3", "0", "0", "0", "0">>}
Argvs == {<< >>} \cup {<<cep>> : cep \in CepArgs}

CEPResult(api) == [kind |-> "result", CEP |-> argv[1], Source |-> api]
TimeoutError == [kind |-> "timeout", CEP |-> << >>, Source |-> ""]

InitArgs ==
  /\ InitAuction
  /\ InitConfig
  /\ InitQuotation
  /\ argv \in Argvs
  /\ mainpc = "start"
  /\ ch = << >>
  /\ fetch = [api \in APIs |-> "idle"]
  /\ delivered = << >>
  /\ reported = << >>
  /\ InitGateway
  /\ InitClient
  /\ InitExchange
  /\ InitWeather

\* main up to the select: the argument checks, then the two go statements.
MainStart ==
  /\ mainpc = "start"
  /\ IF Len(argv) < 1 \/ Len(argv[1]) # 8
       THEN /\ mainpc' = "exit1"
            /\ UNCHANGED fetch
       ELSE /\ mainpc' = "spawned"
            /\ fetch' = [api \in APIs |-> "running"]
  /\ UNCHANGED <<argv, ch, delivered, reported>>
  /\ UNCHANGED <<auction, config, quotation, gateway,
                 client, exchange, weather>>

\* Variant: main takes the result sent last.
EnterSelectNewest ==
  /\ mainpc = "spawned"
  /\ IF ch # << >>
       THEN /\ reported' = Append(reported, ch[Len(ch)])
            /\ ch' = SubSeq(ch, 1, Len(ch) - 1)
            /\ mainpc' = "exit0"
       ELSE /\ mainpc' = "blocked"
            /\ UNCHANGED <<ch, reported>>
  /\ UNCHANGED <<argv, fetch, delivered>>
  /\ UNCHANGED <<auction, config, quotation, gateway,
                 client, exchange, weather>>

\* main reaches the select: time.After is armed, ch is polled; a result
\* already in the buffer is received and printed, otherwise main blocks.
EnterSelect ==
  /\ mainpc = "spawned"
  /\ IF ch # << >>
       THEN /\ reported' = Append(reported, Head(ch))
            /\ ch' = Tail(ch)
            /\ mainpc' = "exit0"
       ELSE /\ mainpc' = "blocked"
            /\ UNCHANGED <<ch, reported>>
  /\ UNCHANGED <<argv, fetch, delivered>>
  /\ UNCHANGED <<auction, config, quotation, gateway,
                 client, exchange, weather>>

\* A fetcher ends while the process lives: it returns without sending on
\* any failure, or sends its result; a send to the blocked main is
\* received at once and printed, after which the process exits.
FetchReturn(api, ok) ==
  /\ mainpc \in {"spawned", "blocked"}
  /\ fetch[api] = "running"
  /\ IF ~ok
       THEN /\ fetch' = [fetch EXCEPT ![api] = "returned"]
            /\ UNCHANGED <<ch, delivered, reported, mainpc>>
       ELSE /\ fetch' = [fetch EXCEPT ![api] = "sent"]
            /\ delivered' = Append(delivered, api)
            /\ IF mainpc = "blocked"
                 THEN /\ reported' = Append(reported, CEPResult(api))
                      /\ mainpc' = "exit0"
                      /\ UNCHANGED ch
                 ELSE /\ ch' = Append(ch, CEPResult(api))
                      /\ UNCHANGED <<reported, mainpc>>
  /\ UNCHANGED argv
  /\ UNCHANGED <<auction, config, quotation, gateway,
                 client, exchange, weather>>

\* time.After(1 * time.Second) fires while main is blocked in the select.
TimerFires ==
  /\ mainpc = "blocked"
  /\ reported' = Append(reported, TimeoutError)
  /\ mainpc' = "exit1"
  /\ UNCHANGED <<argv, ch, fetch, delivered>>
  /\ UNCHANGED <<auction, config, quotation, gateway,
                 client, exchange, weather>>

NextLookup ==
  \/ MainStart
  \/ EnterSelect
  \/ \E api \in APIs, ok \in BOOLEAN : FetchReturn(api, ok)
  \/ TimerFires

\* One run of the CEP lookup for every command line.
SpecLookup == InitArgs /\ [][NextLookup]_vars

(* -------------------------------- gateway ------------------------------ *)
\* Request bodies: text that is not JSON, an object whose "cep" is a
\* number, and objects whose "cep" is a string (absent: the empty string).
InvalidJSON == [kind |-> "text", cep |-> << >>]
NumberCep == [kind |-> "number", cep |-> << >>]
Object(cep) == [kind |-> "object", cep |-> cep]

\* The CEPs of the handler's tests, and "2990" followed by three to five
\* characters among a digit, a letter and the dash.
TestCeps ==
  {<< >>,
   <<"1", "2", "3", "4", "5", "6", "7">>,
   <<"1", "2", "3", "4", "5", "6", "7", "8", "9">>,
   <<"a", "b", "c", "d", "1", "2", "3", "4">>,
   <<"2", "9", "9", "0", "2", "5", "5", "a">>,
   <<"2", "9", "9", "0", "2", "5", "5", "5">>,
   <<"0", "1", "3", "1", "0", " ", "1", "0", "0">>}
TailCeps ==
  {<<"2", "9", "9", "0">> \o t :
     t \in UNION {[1..n -> {"2", "a", "-"}] : n \in 3..5}}
Bodies == {InvalidJSON, NumberCep} \cup {Object(c) : c \in TestCeps \cup TailCeps}

\* json.NewDecoder(r.Body).Decode(&req)
Decode(body) ==
  IF body.kind = "object"
    THEN [err |-> FALSE, CEP |-> body.cep]
    ELSE [err |-> TRUE, CEP |-> << >>]

\* strings.ReplaceAll(s, old, "") for a one-character old.
RemoveAll(s, old) == SelectSeq(s, LAMBDA c : c # old)

CleanCEP(cep) == RemoveAll(RemoveAll(cep, "-"), " ")

ValidateCEP(cep) ==
  LET c == CleanCEP(cep)
  IN /\ Len(c) = 8
     /\ \A i \in 1..Len(c) : IsDigit(c[i])

FormatCEP(cep) ==
  LET cleaned == CleanCEP(cep)
  IN IF Len(cleaned) = 8
       THEN SubSeq(cleaned, 1, 5) \o <<"-">> \o SubSeq(cleaned, 6, 8)
       ELSE cleaned

\* What the call of the orchestration service gives: no response at all, or
\* the response of its weather handler to a well-formed CEP, which is 200
\* with the weather, 404 or 500.
Outcomes ==
  { [err |-> TRUE, StatusCode |-> 0, Body |-> ""],
    [err |-> FALSE, StatusCode |-> 200, Body |-> "weather"],
    [err |-> FALSE, StatusCode |-> 404, Body |-> "can not find zipcode"],
    [err |-> FALSE, StatusCode |-> 500, Body |-> "error fetching weather data"] }

\* No call of the orchestration service was made.
NoAnswer == [err |-> FALSE, StatusCode |-> 0, Body |-> ""]

\* w.WriteHeader(status) and the ErrorResponse with the message.
Answer(body, status, message, upstream) ==
  [n |-> requests + 1, body |-> body, status |-> status, message |-> message,
   upstream |-> upstream, relayed |-> ""]

\* w.WriteHeader(status) and w.Write of the orchestration service's body.
Relay(body, status, upstream) ==
  [n |-> requests + 1, body |-> body, status |-> status, message |-> "",
   upstream |-> upstream, relayed |-> upstream.Body]

\* Variant: the request is forwarded before the CEP is validated.
ProcessCEPForwardFirst(body, outcome) ==
  /\ requests < MaxRequests
  /\ requests' = requests + 1
  /\ LET d == Decode(body) IN
       IF d.err
         THEN /\ resp' = Answer(body, 400, "invalid request body", NoAnswer)
              /\ UNCHANGED calls
         ELSE /\ calls' = Append(calls, FormatCEP(d.CEP))
              /\ IF ~ValidateCEP(d.CEP)
                   THEN resp' = Answer(body, 422, "invalid zipcode", outcome)
                   ELSE IF ~outcome.err /\ outcome.StatusCode = 200
                     THEN resp' = Relay(body, 200, outcome)
                     ELSE resp' = Answer(body, 500, "failed to process request",
                                         outcome)
  /\ UNCHANGED <<auction, config, quotation, lookup, client, exchange, weather>>

\* ProcessCEP with its forwardToOrchestrationService, which reports a
\* response whose status is not 200 as an error.
ProcessCEP(body, outcome) ==
  /\ requests < MaxRequests
  /\ requests' = requests + 1
  /\ LET d == Decode(body) IN
       IF d.err
         THEN /\ resp' = Answer(body, 400, "invalid request body", NoAnswer)
              /\ UNCHANGED calls
         ELSE IF ~ValidateCEP(d.CEP)
           THEN /\ resp' = Answer(body, 422, "invalid zipcode", NoAnswer)
                /\ UNCHANGED calls
           ELSE /\ calls' = Append(calls, FormatCEP(d.CEP))
                /\ IF ~outcome.err /\ outcome.StatusCode = 200
                     THEN resp' = Relay(body, 200, outcome)
                     ELSE resp' = Answer(body, 500, "failed to process request",
                                         outcome)
  /\ UNCHANGED <<auction, config, quotation, lookup, client, exchange, weather>>

\* ProcessCEP of the handler with tracing, whose
\* forwardToOrchestrationService returns the status with the body.
ProcessCEPTraced(body, outcome) ==
  /\ requests < MaxRequests
  /\ requests' = requests + 1
  /\ LET d == Decode(body) IN
       IF d.err
         THEN /\ resp' = Answer(body, 400, "invalid request body", NoAnswer)
              /\ UNCHANGED calls
         ELSE IF ~ValidateCEP(d.CEP)
           THEN /\ resp' = Answer(body, 422, "invalid zipcode", NoAnswer)
                /\ UNCHANGED calls
           ELSE /\ calls' = Append(calls, FormatCEP(d.CEP))
                /\ IF outcome.err
                     THEN resp' = Answer(body, 500, "failed to process request",
                                         outcome)
                     ELSE resp' = Relay(body, outcome.StatusCode, outcome)
  /\ UNCHANGED <<auction, config, quotation, lookup, client, exchange, weather>>

NextGateway ==
  \/ \E body \in Bodies, outcome \in Outcomes : ProcessCEP(body, outcome)
  \/ \E body \in Bodies, outcome \in Outcomes : ProcessCEPTraced(body, outcome)

\* The gateway answering POST /cep.
SpecGateway == Init /\ [][NextGateway]_vars

(* ----------------------------- quote client ---------------------------- *)
\* const maxRetries.
maxRetries == 5

\* What fetchQuoteFromServerOnce can return: an error (the request, the
\* status, the body or the JSON failed) or a quote with the bid the server
\* sent, as its characters.
NoQuote == [err |-> TRUE, Bid |-> << >>]

ClientBids ==
  { <<"5", ".", "4">>, << >>, <<" ">>, <<"0">>, <<"0", ".", "0">>,
    <<"0", ".", "0", "0">>, <<"0", ".", "0", "0", "0", "0">> }

Replies == {NoQuote} \cup {[err |-> FALSE, Bid |-> b] : b \in ClientBids}

\* strings.TrimSpace, for the one white-space character the bids use.
RECURSIVE TrimLeft(_)
TrimLeft(s) ==
  IF s # << >> /\ Head(s) = " " THEN TrimLeft(Tail(s)) ELSE s

RECURSIVE TrimRight(_)
TrimRight(s) ==
  IF s # << >> /\ s[Len(s)] = " "
    THEN TrimRight(SubSeq(s, 1, Len(s) - 1))
    ELSE s

TrimSpace(s) == TrimRight(TrimLeft(s))

\* isValidQuote for a quote that is not nil.
isValidQuote(q) ==
  /\ TrimSpace(q.Bid) # << >>
  /\ q.Bid \notin {<<"0">>, <<"0", ".", "0">>, <<"0", ".", "0", "0">>}

\* One iteration of the loop of fetchQuoteFromServer up to its sleep: the
\* call of fetchQuoteFromServerOnce, the return of a valid quote, and after
\* the last attempt the return of the error.
Attempt(reply) ==
  /\ cpc = "try"
  /\ attempts' = Append(attempts, reply)
  /\ IF ~reply.err /\ isValidQuote(reply)
       THEN /\ quote' = [done |-> TRUE, err |-> FALSE, Bid |-> reply.Bid]
            /\ cpc' = "done"
       ELSE IF Len(attempts') < maxRetries
         THEN /\ cpc' = "sleep"
              /\ UNCHANGED quote
         ELSE /\ quote' = [done |-> TRUE, err |-> TRUE, Bid |-> << >>]
              /\ cpc' = "done"
  /\ UNCHANGED <<waits, auction, config, quotation, lookup, gateway,
                 exchange, weather>>

\* waitTime of the attempt that has just failed.
waitTime(attempt) == attempt * 2 * Second

\* time.Sleep(waitTime) between two attempts.
Sleep ==
  /\ cpc = "sleep"
  /\ waits' = Append(waits, waitTime(Len(attempts)))
  /\ cpc' = "try"
  /\ UNCHANGED <<attempts, quote, auction, config, quotation, lookup, gateway,
                 exchange, weather>>

NextClient ==
  \/ \E reply \in Replies : Attempt(reply)
  \/ Sleep

\* One call of fetchQuoteFromServer.
SpecClient == Init /\ [][NextClient]_vars

\* The attempts and the sleeps of the client both return.
FairClient ==
  SpecClient /\ WF_vars(\E reply \in Replies : Attempt(reply)) /\ WF_vars(Sleep)

(* ------------------------- exchange rate fallback ---------------------- *)
\* What fetchExchangeRate can return: an error, or the response with its
\* rate, as the characters of the number.
PrimaryReplies ==
  { [err |-> TRUE, BRL |-> << >>],
    [err |-> FALSE, BRL |-> <<"5", ".", "4">>],
    [err |-> FALSE, BRL |-> <<"5", ".", "5">>] }

\* What fetchFromAwesomeAPI can return: an error, or the bid of the decoded
\* answer, whatever text it holds.
FallbackBids ==
  { <<"5", ".", "4">>, << >>, <<"a", "b", "c">>, <<"5", ".", "4", "x">>,
    <<".">>, <<" ", "5">>, <<"-">> }

FallbackReplies ==
  {[err |-> TRUE, bid |-> << >>]} \cup
    {[err |-> FALSE, bid |-> b] : b \in FallbackBids}

\* The token the %f verb reads: a sign, digits, a point, digits.
floatToken(s) ==
  LET sign == IF s # << >> /\ Head(s) \in {"+", "-"} THEN 1 ELSE 0
      d1 == DigitRun(Drop(s, sign))
      r == Drop(s, sign + d1)
      dot == IF r # << >> /\ Head(r) = "." THEN 1 ELSE 0
      d2 == IF dot = 1 THEN DigitRun(Drop(r, 1)) ELSE 0
  IN SubSeq(s, 1, sign + d1 + dot + d2)

\* fmt.Sscanf(bid, "%f", &brlRate): leading spaces are skipped, the token is
\* converted, what follows the token is left unread; a token without a digit
\* (the empty one included) is an error.
Sscanf(bid) ==
  LET token == floatToken(TrimLeft(bid)) IN
    [err |-> ~\E k \in 1..Len(token) : IsDigit(token[k]), value |-> token]

\* Variant: the fallback API is asked whatever the primary API answered.
fetchExchangeRateAskingBoth(primary, fallback) ==
  /\ rate.n < MaxRequests
  /\ LET n == rate.n + 1
         parsed == Sscanf(fallback.bid)
         first == [n |-> n, api |-> "primary", err |-> primary.err,
                   text |-> primary.BRL]
         second == [n |-> n, api |-> "fallback", err |-> fallback.err,
                    text |-> fallback.bid]
         unasked == [err |-> FALSE, bid |-> << >>]
     IN /\ apicalls' = apicalls \o <<first, second>>
        /\ rate' =
             IF ~primary.err
               THEN [n |-> n, primary |-> primary, fallback |-> fallback,
                     err |-> FALSE, BRL |-> primary.BRL]
             ELSE IF ~fallback.err /\ ~parsed.err
               THEN [n |-> n, primary |-> primary, fallback |-> fallback,
                     err |-> FALSE, BRL |-> parsed.value]
             ELSE [n |-> n, primary |-> primary, fallback |-> fallback,
                   err |-> TRUE, BRL |-> << >>]
  /\ UNCHANGED <<auction, config, quotation, lookup, gateway, client, weather>>

\* fetchExchangeRateWithFallback, with what the two APIs answer when asked.
fetchExchangeRateWithFallback(primary, fallback) ==
  /\ rate.n < MaxRequests
  /\ LET n == rate.n + 1
         parsed == Sscanf(fallback.bid)
         first == [n |-> n, api |-> "primary", err |-> primary.err,
                   text |-> primary.BRL]
         second == [n |-> n, api |-> "fallback", err |-> fallback.err,
                    text |-> fallback.bid]
         unasked == [err |-> FALSE, bid |-> << >>]
     IN IF ~primary.err
          THEN /\ apicalls' = Append(apicalls, first)
               /\ rate' = [n |-> n, primary |-> primary, fallback |-> unasked,
                           err |-> FALSE, BRL |-> primary.BRL]
          ELSE /\ apicalls' = apicalls \o <<first, second>>
               /\ rate' =
                    IF ~fallback.err /\ ~parsed.err
                      THEN [n |-> n, primary |-> primary,
                            fallback |-> fallback,
                            err |-> FALSE, BRL |-> parsed.value]
                      ELSE [n |-> n, primary |-> primary,
                            fallback |-> fallback,
                            err |-> TRUE, BRL |-> << >>]
  /\ UNCHANGED <<auction, config, quotation, lookup, gateway, client, weather>>

NextFallback ==
  \E primary \in PrimaryReplies, fallback \in FallbackReplies :
    fetchExchangeRateWithFallback(primary, fallback)

\* The quotation server fetching the rate for its requests.
SpecFallback == Init /\ [][NextFallback]_vars

(* ---------------------------- weather service -------------------------- *)
ErrCEPNotFound == "can not find zipcode"
ErrWeatherDataUnavailable == "error fetching weather data"

\* The CEPs of the requests, validated and formatted by the gateway.
WeatherCeps == {"01310-100", "99999-999"}

\* What locationRepo.GetLocationByCEP can return: a location, or an error
\* of any kind.
Locations ==
  { [err |-> "", Localidade |-> "Sao Paulo", UF |-> "SP"],
    [err |-> "", Localidade |-> "Vitoria", UF |-> "ES"],
    [err |-> "cep not found", Localidade |-> "", UF |-> ""],
    [err |-> "connection refused", Localidade |-> "", UF |-> ""] }

\* What weatherDataRepo.GetWeatherByLocation can return: the current
\* temperature in whole degrees Celsius, or an error of any kind.
WeatherData ==
  { [err |-> "", TempC |-> 25],
    [err |-> "", TempC |-> -5],
    [err |-> "status 401", TempC |-> 0],
    [err |-> "timeout", TempC |-> 0] }

\* celsius*1.8 + 32, exact for the temperatures of WeatherData.
ConvertCelsiusToFahrenheit(celsius) == (celsius * 18) \div 10 + 32

ConvertCelsiusToKelvin(celsius) == celsius + 273

\* handleError: the status and the message for an error of the service.
handleError(err) ==
  IF err = ErrCEPNotFound
    THEN [status |-> 404, message |-> ErrCEPNotFound]
  ELSE IF err = ErrWeatherDataUnavailable
    THEN [status |-> 500, message |-> ErrWeatherDataUnavailable]
  ELSE [status |-> 500, message |-> "internal server error"]

\* The response of the handler to an error of the service.
Failure(n, cep, location, data, err) ==
  [n |-> n, cep |-> cep, location |-> location.err, data |-> data,
   err |-> err, status |-> handleError(err).status,
   message |-> handleError(err).message,
   City |-> "", TempC |-> 0, TempF |-> 0, TempK |-> 0]

\* Variant: both repositories are asked before either error is looked at.
GetWeatherByCEPAskingBoth(cep, location, data) ==
  /\ wresp.n < MaxRequests
  /\ LET n == wresp.n + 1
         first == [n |-> n, repo |-> "location", arg |-> cep,
                   failed |-> location.err # ""]
         second == [n |-> n, repo |-> "weather",
                    arg |-> <<location.Localidade, location.UF>>,
                    failed |-> data.err # ""]
     IN /\ lookups' = lookups \o <<first, second>>
        /\ wresp' =
             IF location.err # ""
               THEN Failure(n, cep, location, data.err, ErrCEPNotFound)
             ELSE IF data.err # ""
               THEN Failure(n, cep, location, data.err,
                            ErrWeatherDataUnavailable)
             ELSE [n |-> n, cep |-> cep, location |-> "", data |-> "",
                   err |-> "", status |-> 200, message |-> "",
                   City |-> location.Localidade, TempC |-> data.TempC,
                   TempF |-> ConvertCelsiusToFahrenheit(data.TempC),
                   TempK |-> ConvertCelsiusToKelvin(data.TempC)]
  /\ UNCHANGED <<auction, config, quotation, lookup, gateway, client, exchange>>

\* GET /weather/{cep}: WeatherHandler.GetWeatherByCEP with
\* WeatherService.GetWeatherByCEP, and what the two repositories return
\* when asked.
GetWeatherByCEP(cep, location, data) ==
  /\ wresp.n < MaxRequests
  /\ LET n == wresp.n + 1
         first == [n |-> n, repo |-> "location", arg |-> cep,
                   failed |-> location.err # ""]
         second == [n |-> n, repo |-> "weather",
                    arg |-> <<location.Localidade, location.UF>>,
                    failed |-> data.err # ""]
     IN IF location.err # ""
          THEN /\ lookups' = Append(lookups, first)
               /\ wresp' = Failure(n, cep, location, "", ErrCEPNotFound)
          ELSE /\ lookups' = lookups \o <<first, second>>
               /\ wresp' =
                    IF data.err # ""
                      THEN Failure(n, cep, location, data.err,
                                   ErrWeatherDataUnavailable)
                      ELSE [n |-> n, cep |-> cep, location |-> "", data |-> "",
                            err |-> "", status |-> 200, message |-> "",
                            City |-> location.Localidade, TempC |-> data.TempC,
                            TempF |-> ConvertCelsiusToFahrenheit(data.TempC),
                            TempK |-> ConvertCelsiusToKelvin(data.TempC)]
  /\ UNCHANGED <<auction, config, quotation, lookup, gateway, client, exchange>>

NextWeather ==
  \E cep \in WeatherCeps, location \in Locations, data \in WeatherData :
    GetWeatherByCEP(cep, location, data)

\* The orchestrator answering GET /weather/{cep}.
SpecWeather == Init /\ [][NextWeather]_vars

(* ------------------------------ properties ----------------------------- *)
UnitSet == BagToSet(units)

C2_ShutdownStopsArmedUnits ==
  [][\A u \in UnitSet :
       (shutdown /\ u.pc = "Armed")
         => \A v \in BagToSet(units') :
              v.id = u.id => v.pc \in {"Armed", "Aborted"}]_vars

\* C3: a stored auction is never removed and its status either stays as it
\* is or goes from Active to Completed; never from Completed to Active.
C3_StatusOnlyActiveToCompleted ==
  [][\A i \in Ids :
       store[i] # NoDoc
         => /\ store'[i] # NoDoc
            /\ \/ store'[i].Status = store[i].Status
               \/ store[i].Status = Active /\ store'[i].Status = Completed]_vars

C3_Witness ==
  \E i \in Ids :
    /\ supplied[i] # NoDoc /\ supplied[i].Status = Active
    /\ store[i].Status = Completed

\* C4 as stated: an UpdateStatus(id, Completed) on an auction whose status
\* is already Completed does not return success.
C4_CloseOfCompletedIsFailure ==
  [][(ret'.op = "update" /\ ret'.status = Completed
        /\ store[ret'.id] # NoDoc /\ store[ret'.id].Status = Completed)
       => ret'.err # NoErr]_vars

\* C4 amended: an UpdateStatus(id, Completed) on an auction whose status is
\* already Completed leaves the store as it is and returns success, or the
\* internal error when the write itself fails; it never returns not-found.
C4_CloseOfCompletedSucceeds ==
  [][(ret'.op = "update" /\ ret'.status = Completed
        /\ store[ret'.id] # NoDoc /\ store[ret'.id].Status = Completed)
       => /\ store' = store
          /\ ret'.err = IF ret'.drv THEN InternalServerError ELSE NoErr]_vars

C4_Witness ==
  /\ ret.op = "update" /\ ret.status = Completed
  /\ ret.existed /\ ret.prior = Completed
  /\ ret.err = NoErr

\* C5: an UpdateStatus on an identifier with no stored document leaves the
\* whole store as it is (no document is created) and returns not-found, or
\* the internal error when the write itself fails; the two errors differ.
C5_UpdateOfAbsentIsNotFound ==
  /\ NotFoundError # InternalServerError
  /\ [][(ret'.op = "update" /\ store[ret'.id] = NoDoc)
          => /\ store' = store
             /\ ret'.err = IF ret'.drv THEN InternalServerError
                                       ELSE NotFoundError]_vars

C5_Witness ==
  /\ ret.op = "update" /\ ~ret.existed /\ ~ret.drv
  /\ ret.err = NotFoundError
  /\ store[ret.id] = NoDoc
  /\ \E i \in Ids : store[i] # NoDoc

\* C6: no two expiry units belong to the same auction identifier, every
\* unit belongs to an identifier that a Create inserted, and the only
\* identifier a unit has issued a status update for is its own.
C6_OneUnitPerAuction ==
  /\ \A u \in UnitSet : CopiesIn(u, units) = 1
  /\ \A u, v \in UnitSet : u.id = v.id => u = v
  /\ \A u \in UnitSet : supplied[u.id] # NoDoc /\ u.target \in {0, u.id}

C6_Witness ==
  \E u, v \in UnitSet :
    u.id # v.id /\ u.target = u.id /\ v.target = v.id

\* C7: a unit has made at most one UpdateStatus call, none if it aborted;
\* a unit whose call failed with the internal error is finished, and its
\* auction is Active then and in every later state.
C7_SingleCloseAttempt ==
  /\ [](\A u \in UnitSet :
          /\ u.calls <= 1
          /\ u.pc = "Aborted" => u.calls = 0
          /\ u.res = InternalServerError
               => u.pc = "Closed" /\ store[u.id].Status = Active)
  /\ [][\A u \in UnitSet :
          u.pc \in {"Closed", "Aborted"} => u \in BagToSet(units')]_vars

C7_Witness ==
  \E u \in UnitSet :
    /\ u.res = InternalServerError /\ u.calls = 1 /\ u.pc = "Closed"
    /\ ret.op = "find" /\ ret.id = u.id /\ ret.err = NoErr
    /\ ret.auction.Status = Active

\* C8 as stated: while a successful Create has not returned yet, the timer
\* of the expiry unit it started has not fired.
C8_ReturnBeforeTimerFires ==
  pc = "creating" => \A u \in UnitSet : u.id = call => u.pc = "Armed"

\* C8 amended: the result of Create is the internal error exactly when the
\* insert failed (driver error or identifier already stored) and nil
\* otherwise, whatever the expiry unit has done by then, a failed close
\* attempt included.
C8_ResultIsInsertOutcome ==
  ret.op = "create"
    => ret.err = IF ret.drv \/ ret.existed THEN InternalServerError ELSE NoErr

C8_Witness ==
  /\ ret.op = "create" /\ ret.err = NoErr
  /\ \E u \in UnitSet :
       u.id = ret.id /\ u.pc = "Closed" /\ u.res = InternalServerError

\* C9: a Create on an identifier that is already stored does not succeed,
\* and a Create that fails returns the internal error, leaves the store as
\* it is and starts no expiry unit.
C9_FailedInsert ==
  [][/\ (pc = "idle" /\ pc' = "creating") => store[call'] = NoDoc
     /\ (ret'.op = "create" /\ pc = "idle")
          => /\ ret'.err = InternalServerError
             /\ store' = store
             /\ units' = units]_vars

C9_Witness ==
  /\ ret.op = "create" /\ ret.err = InternalServerError
  /\ ret.existed /\ ~ret.drv
  /\ \E u \in UnitSet : u.id = ret.id

\* C10 as stated: a FindById of an auction whose expiry timer has not fired
\* returns status Active and every field as supplied to Create.
C10_FindReturnsSupplied ==
  \A u \in UnitSet :
    (u.pc = "Armed" /\ ret.op = "find" /\ ret.id = u.id /\ ret.err = NoErr)
      => ret.auction.Status = Active /\ ret.auction = supplied[u.id]

\* C10 amended: a FindById of an auction whose expiry timer has not fired
\* returns status Active and every field as supplied to Create, except the
\* creation timestamp, which is the supplied one cut to whole seconds.
C10_FindReturnsSuppliedToTheSecond ==
  \A u \in UnitSet :
    (u.pc = "Armed" /\ ret.op = "find" /\ ret.id = u.id /\ ret.err = NoErr)
      => /\ ret.auction.Status = Active
         /\ ret.auction =
              [supplied[u.id] EXCEPT
                 !.Timestamp = @ - (@ % TicksPerSecond)]

C10_Witness ==
  \E u \in UnitSet :
    /\ u.pc = "Armed" /\ ret.op = "find" /\ ret.id = u.id /\ ret.err = NoErr
    /\ supplied[u.id].Timestamp % TicksPerSecond # 0
    /\ ret.auction.Timestamp # supplied[u.id].Timestamp


(* ------------------------- FindAuctions properties ---------------------- *)
\* The stored auctions, as the repository converts them for its callers.
StoredAuctions ==
  {FromMongo(store[i]) : i \in {j \in DOMAIN store : store[j] # NoDoc}}

\* A FindAuctions call has just returned without error.
Listed == ret.op = "findMany" /\ ret.err = NoErr

\* What the filters are specified to select: the status when it is not the
\* sentinel, the category, and the product name as a case-insensitive
\* substring.
StatusSelects(a) == ret.status = AnyStatus \/ a.Status = ret.status
CategoryEquals(a) == ret.category = "" \/ a.Category = ret.category
CategoryContains(a) ==
  ret.category = "" \/ RegexMatchI(ret.category, a.Category)
NameContains(a) ==
  ret.productName = "" \/ RegexMatchI(ret.productName, a.ProductName)

\* C11: FindAuctions with the "any status" sentinel and empty category and
\* productName returns exactly the set of all stored auctions, whatever
\* their status.
C11_SentinelListsEveryAuction ==
  (Listed /\ ret.status = AnyStatus /\ ret.category = ""
     /\ ret.productName = "")
    => ret.auctions = StoredAuctions

C11_Witness ==
  /\ Listed /\ ret.status = AnyStatus /\ ret.category = ""
  /\ ret.productName = ""
  /\ \E a, b \in ret.auctions : a.Status = Active /\ b.Status = Completed

\* C12 as stated: for every status filter value outside {Active, Completed},
\* FindAuctions with empty category and productName returns every stored
\* auction regardless of status.
C12_AnyValueOutsideEnumListsAll ==
  (Listed /\ ret.status \notin Statuses /\ ret.category = ""
     /\ ret.productName = "")
    => ret.auctions = StoredAuctions

\* C12 amended: with empty category and productName, the one reserved
\* sentinel value returns every stored auction regardless of status; any
\* other value outside {Active, Completed} is compared with the stored
\* statuses like an enumerated one and returns no auction.
C12_OnlySentinelListsAll ==
  (Listed /\ ret.status \notin Statuses /\ ret.category = ""
     /\ ret.productName = "")
    => IF ret.status = AnyStatus
         THEN ret.auctions = StoredAuctions
         ELSE ret.auctions = {}

C12_Witness ==
  /\ Listed /\ ret.status \notin Statuses /\ ret.status # AnyStatus
  /\ ret.category = "" /\ ret.productName = ""
  /\ ret.auctions = {}
  /\ \E a, b \in StoredAuctions : a.Status = Active /\ b.Status = Completed

\* C13: FindAuctions with a non-empty productName filter returns every
\* stored auction whose product name contains the filter as a
\* case-insensitive substring (subject to the other filters); the filter
\* "phone" matches a stored auction named "iPhone 15 Pro".
C13_ProductNameSubstringListed ==
  (Listed /\ ret.productName # "")
    => \A a \in StoredAuctions :
         (NameContains(a) /\ StatusSelects(a) /\ CategoryEquals(a))
           => a \in ret.auctions

\* C14 as stated: a non-empty category filter matches stored categories by
\* case-insensitive pattern, and the result is exactly the auctions that
\* satisfy all the supplied filters.  Stated here for calls without a
\* productName filter.
C14_CategoryPatternAndConjunction ==
  (Listed /\ ret.productName = "")
    => ret.auctions =
         {a \in StoredAuctions : StatusSelects(a) /\ CategoryContains(a)}

\* C14 amended: a non-empty category filter matches stored categories by
\* exact, case-sensitive equality; every returned auction satisfies all the
\* supplied filters, and when no productName is supplied the result is
\* exactly the auctions that satisfy the status and category filters.
C14_CategoryExactAndConjunction ==
  Listed
    => /\ ret.auctions \subseteq
            {a \in StoredAuctions :
               StatusSelects(a) /\ CategoryEquals(a) /\ NameContains(a)}
       /\ ret.productName = ""
            => ret.auctions =
                 {a \in StoredAuctions : StatusSelects(a) /\ CategoryEquals(a)}

C14_Witness ==
  /\ Listed /\ ret.status = Active /\ ret.category = "Electronics"
  /\ ret.productName = ""
  /\ ret.auctions # {} /\ ret.auctions # StoredAuctions
  /\ \E a \in StoredAuctions : a.Status = Completed


(* ---------------------------- interval properties ----------------------- *)
\* C15: for every configuration string the effective expiry interval is the
\* parsed duration when the string is a valid duration and exactly 5 minutes
\* when it is missing or malformed; construction succeeds for every string,
\* and the value is fixed at construction for every later CreateAuction.
C15_IntervalParsedOrFiveMinutes ==
  /\ [](ar.built =>
          /\ ParseDuration(ar.read).ok
               => ar.auctionInterval = ParseDuration(ar.read).d
          /\ ~ParseDuration(ar.read).ok
               => ar.auctionInterval = 5 * 60 * 1000
          /\ ar.read = <<"1", "m", "1", "s">> => ar.auctionInterval = 61000
          /\ ar.read \in {<< >>, <<"x">>, <<"1">>, <<"1", "x">>, <<"-">>}
               => ar.auctionInterval = 5 * 60 * 1000
          /\ ar.armed \subseteq {ar.auctionInterval})
  /\ [][/\ ~ar.built => (ar'.built => ar'.read = env)
        /\ ar.built => /\ ar'.built
                       /\ ar'.auctionInterval = ar.auctionInterval
                       /\ ar'.read = ar.read]_vars

C15_Witness ==
  /\ ar.built
  /\ ar.read = <<"x">>
  /\ env = <<"1", "s">>
  /\ ar.armed = {5 * 60 * 1000}
  /\ ar.creates = MaxAuctions


(* ------------------------ quotation server properties ------------------- *)
\* C16: the quotation server stores every quotation it serves: whenever the
\* /cotacao handler has returned a bid to a client, that bid has been
\* inserted into table quotes for that request.
C16_ServedBidIsStored ==
  \A r \in served :
    r.status = 200 => [n |-> r.n, bid |-> r.bid] \in quotes

(* ---------------------------- CEP lookup properties --------------------- *)
\* C17: the CEP lookup starts both fetchers together and reports exactly one
\* outcome: the first result delivered by either fetcher, or a timeout error
\* if neither has delivered a result when the timer fires; never a result
\* and a timeout, and never the result delivered second.
C17_FirstResultOrTimeout ==
  /\ Len(reported) <= 1
  /\ \A a, b \in APIs : fetch[a] = "idle" <=> fetch[b] = "idle"
  /\ mainpc \in {"spawned", "blocked"} => \A a \in APIs : fetch[a] # "idle"
  /\ mainpc = "exit0" => Len(reported) = 1 /\ reported[1].kind = "result"
  /\ reported # << >> =>
       IF reported[1].kind = "result"
         THEN /\ delivered # << >>
              /\ reported[1].Source = delivered[1]
              /\ reported[1].CEP = argv[1]
         ELSE /\ delivered = << >>
              /\ mainpc = "exit1"

C17_Witness ==
  /\ Len(delivered) = 2
  /\ delivered[1] = "ViaCEP"
  /\ Len(reported) = 1
  /\ reported[1].Source = "ViaCEP"

(* ------------------------------ gateway properties ---------------------- *)
\* C18: ProcessCEP calls the orchestration service only if the request body
\* parsed as JSON and the CEP passed validation: an unparsable body yields
\* 400 "invalid request body", an invalid CEP 422 "invalid zipcode", and in
\* both cases the orchestration service receives no call.
C18_ValidatedBeforeForwarding ==
  /\ [](resp.n > 0 =>
          /\ resp.body.kind # "object"
               => resp.status = 400 /\ resp.message = "invalid request body"
          /\ (resp.body.kind = "object" /\ ~ValidateCEP(resp.body.cep))
               => resp.status = 422 /\ resp.message = "invalid zipcode"
          /\ (resp.body.kind = "object"
                /\ ( \/ Len(resp.body.cep) \in {0, 7}
                     \/ \E i \in 1..Len(resp.body.cep) :
                          resp.body.cep[i] \in {"a", "b", "c", "d"}))
               => resp.status = 422
          /\ resp.status \in {200, 500}
               => /\ calls # << >>
                  /\ calls[Len(calls)] = FormatCEP(resp.body.cep))
  /\ [][/\ resp'.status \in {400, 422} => calls' = calls
        /\ calls' # calls
             => /\ resp'.body.kind = "object"
                /\ ValidateCEP(resp'.body.cep)
                /\ Len(calls') = Len(calls) + 1]_vars

C18_Witness ==
  /\ resp.status = 422
  /\ resp.body = Object(<<"2", "9", "9", "0", "2", "5", "5", "a">>)
  /\ calls = <<<<"2", "9", "9", "0", "2", "-", "5", "5", "5">>>>


(* --------------------------- expiry unit properties --------------------- *)
\* C19: within one auction the events are strictly ordered: the insert
\* succeeds, then the expiry timer fires, then the close attempt is issued;
\* an auction created Active is never Completed in a state where its expiry
\* timer has not fired.
C19_InsertThenTimerThenClose ==
  /\ [](\A u \in UnitSet :
          /\ store[u.id] # NoDoc
          /\ u.pc = "Armed" => store[u.id].Status = Active /\ u.calls = 0
          /\ u.pc = "Closing" => u.calls = 0
          /\ u.calls > 0 => u.pc = "Closed")
  /\ [](\A i \in Ids :
          store[i].Status = Completed
            => \E u \in UnitSet : u.id = i /\ u.pc = "Closed")
  /\ [][\A v \in BagToSet(units') :
          v \notin UnitSet =>
            \/ /\ v = [id |-> v.id, pc |-> "Armed", calls |-> 0, target |-> 0,
                       res |-> NoErr]
               /\ store[v.id] = NoDoc
               /\ store'[v.id] # NoDoc
            \/ /\ v.pc = "Closing"
               /\ [v EXCEPT !.pc = "Armed"] \in UnitSet
               /\ store' = store
            \/ /\ v.pc = "Closed"
               /\ v.calls = 1
               /\ \E u \in UnitSet : u.id = v.id /\ u.pc = "Closing"]_vars

C19_Witness ==
  \E u, v \in UnitSet :
    /\ u.pc = "Closing" /\ store[u.id].Status = Active
    /\ v.pc = "Closed" /\ store[v.id].Status = Completed

\* C20: under fairness every expiry unit started by a successful Create
\* eventually reaches exactly one terminal state, Closed after its single
\* close attempt (successful or not) or Aborted with no close attempt; no
\* unit stays Armed forever and a unit in a terminal state stays as it is.
C20_UnitTerminates ==
  /\ \A i \in Ids :
       (\E u \in UnitSet : u.id = i)
         ~> (\E u \in UnitSet : u.id = i /\ u.pc \in {"Closed", "Aborted"})
  /\ [](\A u \in UnitSet :
          /\ u.pc \in {"Armed", "Closing", "Closed", "Aborted"}
          /\ u.pc = "Closed" => u.calls = 1
          /\ u.pc = "Aborted" => u.calls = 0)
  /\ [][\A u \in UnitSet :
          u.pc \in {"Closed", "Aborted"}
            => /\ u \in BagToSet(units')
               /\ \A v \in BagToSet(units') : v.id = u.id => v = u]_vars

C20_Witness ==
  \E u, v \in UnitSet :
    /\ u.pc = "Closed" /\ u.calls = 1 /\ u.res = NoErr
    /\ v.pc = "Closed" /\ v.calls = 1 /\ v.res = InternalServerError


\* C21: the context of the repository is a background context that nothing
\* cancels, so no expiry unit ever takes the shutdown branch: Aborted is
\* unreachable and, the goroutines being scheduled, every armed unit ends
\* by attempting the close.
C21_NeverAbortedAlwaysCloses ==
  /\ [](\A u \in UnitSet : u.pc # "Aborted")
  /\ [][\A u \in UnitSet :
          u.pc = "Armed" =>
            \A v \in BagToSet(units') : v.id = u.id => v.pc \in {"Armed", "Closing"}]_vars
  /\ \A i \in Ids :
       (\E u \in UnitSet : u.id = i /\ u.pc = "Armed")
         ~> (\E u \in UnitSet : u.id = i /\ u.calls = 1 /\ u.target = i)

C21_Witness ==
  \E u, v \in UnitSet :
    /\ u.pc = "Armed"
    /\ v.pc = "Closed" /\ v.calls = 1 /\ v.res = InternalServerError


(* ------------------------- status and frame properties ------------------ *)
\* C22: UpdateStatus(id, s) on an existing auction sets its status to s
\* whatever its current status is, Completed back to Active included, and
\* returns success; only a failed write returns the internal error, and
\* then nothing is changed.
C22_UpdateSetsAnyStatus ==
  [][(ret'.op = "update" /\ store[ret'.id] # NoDoc)
       => IF ret'.drv
            THEN store' = store /\ ret'.err = InternalServerError
            ELSE /\ store' = [store EXCEPT ![ret'.id].Status = ret'.status]
                 /\ ret'.err = NoErr]_vars

C22_Witness ==
  /\ ret.op = "update" /\ ret.status = Active /\ ret.err = NoErr
  /\ ret.existed /\ ret.prior = Completed
  /\ store[ret.id].Status = Active


\* The fields of a document other than its status.
Frame(d) == [d EXCEPT !.Status = Active]

\* C23: after any sequence of Create, UpdateStatus, FindById and FindMany
\* operations and timer firings no stored auction is removed, and every
\* stored auction's identifier, product name, category, description,
\* condition and creation timestamp are those stored at its creation; only
\* the status can differ, and FindById and FindMany change nothing.
C23_OnlyStatusChanges ==
  /\ [](\A i \in Ids :
          /\ supplied[i] # NoDoc <=> store[i] # NoDoc
          /\ store[i] # NoDoc
               => /\ store[i].Id = i
                  /\ Frame(store[i]) = Frame(ToMongo(supplied[i])))
  /\ [][/\ \A i \in Ids :
             store[i] # NoDoc
               => /\ store'[i] # NoDoc
                  /\ Frame(store'[i]) = Frame(store[i])
        /\ ret'.op \in {"find", "findMany"}
             => store' = store /\ units' = units /\ supplied' = supplied]_vars

C23_Witness ==
  /\ ret.op = "findMany" /\ ret.err = NoErr /\ ret.status = AnyStatus
  /\ ret.category = "" /\ ret.productName = ""
  /\ \A i \in Ids : store[i] # NoDoc
  /\ \E i \in Ids :
       /\ store[i].Status = Active
       /\ \E u \in UnitSet : u.id = i /\ u.pc = "Closed" /\ u.res = NoErr


\* C24: FindById returns the same generic internal error both when no
\* record has the identifier and when the read or decode fails; it never
\* returns the not-found kind, and it succeeds in every other case.
C24_FindErrorsAreInternal ==
  ret.op = "find"
    => /\ ret.err \in {NoErr, InternalServerError}
       /\ ret.err = InternalServerError <=> (~ret.existed \/ ret.drv)
       /\ ret.err = InternalServerError => ret.auction = NoDoc

C24_Witness ==
  /\ ret.op = "find" /\ ~ret.existed /\ ~ret.drv
  /\ ret.err = InternalServerError
  /\ \E i \in Ids : store[i] # NoDoc


\* A bid that reads as the number zero: zeros and at most a decimal point.
ZeroBid(b) ==
  LET t == TrimSpace(b) IN
    /\ \A k \in 1..Len(t) : t[k] \in {"0", "."}
    /\ \E k \in 1..Len(t) : t[k] = "0"

\* A reply that succeeded with a non-empty, non-zero bid.
ValidReply(r) == ~r.err /\ TrimSpace(r.Bid) # << >> /\ ~ZeroBid(r.Bid)

\* C25: fetchQuoteFromServer makes at most maxRetries attempts; no attempt
\* follows one that succeeded with a non-empty, non-zero bid; it returns the
\* quote of that attempt, and returns the error exactly when all maxRetries
\* attempts failed or gave an empty or zero bid; it has slept once between
\* two attempts and not after the last.
C25_FirstNonZeroQuoteOrError ==
  /\ Len(attempts) <= maxRetries
  /\ \A k \in 1..(Len(attempts) - 1) : ~ValidReply(attempts[k])
  /\ cpc = "try" => Len(waits) = Len(attempts)
  /\ cpc # "try" => Len(waits) = Len(attempts) - 1
  /\ quote.done <=> cpc = "done"
  /\ quote.done =>
       LET last == attempts[Len(attempts)] IN
         /\ quote.err <=>
              (Len(attempts) = maxRetries
                 /\ \A k \in 1..maxRetries : ~ValidReply(attempts[k]))
         /\ ~quote.err => ValidReply(last) /\ quote.Bid = last.Bid

\* C26: the waits grow exponentially: each wait is longer than the one
\* before it, by the same factor every time.
C26_WaitsGrowByConstantFactor ==
  /\ \A k \in 2..Len(waits) : waits[k] > waits[k - 1]
  /\ \A k \in 3..Len(waits) :
       waits[k] * waits[k - 2] = waits[k - 1] * waits[k - 1]

\* C27: in every request the fallback API is called at most once and only
\* directly after the primary API call of that request has failed, never
\* after one that succeeded; the request returns an error exactly when the
\* primary API failed and the fallback API failed or returned a bid from
\* which no number can be read.
C27_FallbackOnlyAfterPrimaryFailure ==
  /\ \A k \in 1..Len(apicalls) :
       LET c == apicalls[k] IN
         /\ c.api = "fallback" =>
              /\ k > 1
              /\ apicalls[k - 1].api = "primary"
              /\ apicalls[k - 1].n = c.n
              /\ apicalls[k - 1].err
         /\ c.api = "primary" =>
              /\ c.err => k < Len(apicalls)
                            /\ apicalls[k + 1].api = "fallback"
                            /\ apicalls[k + 1].n = c.n
              /\ ~c.err /\ k < Len(apicalls) =>
                   apicalls[k + 1].api = "primary" /\ apicalls[k + 1].n = c.n + 1
  /\ \A n \in 1..rate.n :
       Cardinality({k \in 1..Len(apicalls) :
                      apicalls[k].n = n /\ apicalls[k].api = "primary"}) = 1
  /\ rate.n > 0 =>
       /\ rate.err <=>
            (rate.primary.err
               /\ (rate.fallback.err \/ Sscanf(rate.fallback.bid).err))
       /\ ~rate.err /\ ~rate.primary.err => rate.BRL = rate.primary.BRL
       /\ rate.primary.err /\ ~rate.fallback.err =>
            /\ rate.fallback.bid \in {<< >>, <<"a", "b", "c">>, <<".">>, <<"-">>}
                 => rate.err
            /\ rate.fallback.bid = <<"5", ".", "4">> =>
                 ~rate.err /\ rate.BRL = <<"5", ".", "4">>

C27_Witness ==
  /\ rate.n = 2
  /\ Len(apicalls) = 3
  /\ apicalls[1].api = "primary" /\ ~apicalls[1].err
  /\ apicalls[3].api = "fallback" /\ apicalls[3].n = 2 /\ ~apicalls[3].err
  /\ rate.fallback.bid = <<"a", "b", "c">>
  /\ rate.err

\* C28: when the orchestration service answers a forwarded request with a
\* status other than 200, the client of the gateway receives that status and
\* that response body.
C28_UpstreamErrorRelayed ==
  (resp.n > 0 /\ ~resp.upstream.err /\ resp.upstream.StatusCode \notin {0, 200})
    => resp.status = resp.upstream.StatusCode
         /\ resp.relayed = resp.upstream.Body

C30_OneReturnAndGoroutineEnds ==
  /\ [](\A r, q \in served : r.n = q.n => r = q)
  /\ [](\A r \in served :
          r.status = 200 =>
            /\ r.save \in {"nil", "err", "timeout"}
            /\ \E g \in execs :
                 /\ g.n = r.n
                 /\ r.save # "timeout" =>
                      g.st = "exited" /\ g.err = r.save /\ g.done = << >>)
  /\ [](\A g \in execs :
          /\ Len(g.done) <= 1
          /\ g.st = "sending" => g.done = << >>
          /\ g.done # << >> => g.st = "exited" /\ g.done = <<g.err>>)
  /\ [][\A g \in execs :
          g.st = "exited" =>
            \E h \in execs' :
              h.n = g.n /\ h.st = "exited" /\ Len(h.done) <= Len(g.done)]_vars
  /\ \A n \in 1..MaxRequests :
       (\E g \in execs : g.n = n) ~> (\E g \in execs : g.n = n /\ g.st = "exited")
  /\ \A n \in 1..MaxRequests :
       (handler.pc = "saving" /\ handler.n = n)
         ~> (\E r \in served : r.n = n /\ r.status = 200)

C30_Witness ==
  \E g \in execs, r \in served :
    /\ g.n = r.n
    /\ r.save = "timeout"
    /\ g.st = "exited"
    /\ g.done = <<"err">>

========================================================================
